---- MODULE Spec2Model ----
(***************************************************************************)
(* Portfolio engine of backend/portfolio.py: time alignment, weight        *)
(* initialisation, rebalance policy, day-by-day return simulation and the  *)
(* derived metrics.                                                        *)
(*                                                                         *)
(* Floating point numbers are modelled as exact fractions <<n, d>> in      *)
(* lowest terms with d > 0; the IEEE specials that numpy/pandas produce    *)
(* instead of raising are <<1, 0>> (+inf), <<-1, 0>> (-inf) and <<0, 0>>   *)
(* (NaN).  A tolerance of 1e-9 on a float sum is exact equality here.      *)
(***************************************************************************)
EXTENDS Integers, Sequences, FiniteSets, TLC

(***************************************************************************)
(* Bounds of the model                                                     *)
(***************************************************************************)
MaxTickers == 2
MaxDates == 4

(***************************************************************************)
(* Float arithmetic                                                        *)
(***************************************************************************)
RECURSIVE GCD(_, _)
GCD(a, b) == IF b = 0 THEN a ELSE GCD(b, a % b)

Abs(n) == IF n < 0 THEN -n ELSE n

Sign(n) == IF n < 0 THEN -1 ELSE IF n > 0 THEN 1 ELSE 0

NaN == <<0, 0>>
Inf == <<1, 0>>

IsNaN(x) == x[2] = 0 /\ x[1] = 0
IsInf(x) == x[2] = 0 /\ x[1] # 0
IsFinite(x) == x[2] # 0

\* fraction n/d, d # 0, in lowest terms with a positive denominator
Frac(n, d) ==
    LET g == GCD(Abs(n), Abs(d))
        s == IF d < 0 THEN -1 ELSE 1
    IN  <<(s * n) \div g, (s * d) \div g>>

F(n) == <<n, 1>>
Zero == F(0)
One == F(1)

FAdd(x, y) ==
    IF IsNaN(x) \/ IsNaN(y) THEN NaN
    ELSE IF IsInf(x) /\ IsInf(y) THEN (IF x[1] = y[1] THEN x ELSE NaN)
    ELSE IF IsInf(x) THEN x
    ELSE IF IsInf(y) THEN y
    ELSE LET g == GCD(x[2], y[2])
         IN  Frac(x[1] * (y[2] \div g) + y[1] * (x[2] \div g),
                  (x[2] \div g) * y[2])

FNeg(x) == <<-x[1], x[2]>>

FSub(x, y) == FAdd(x, FNeg(y))

FMul(x, y) ==
    IF IsNaN(x) \/ IsNaN(y) THEN NaN
    ELSE IF IsInf(x) \/ IsInf(y)
         THEN (IF x[1] = 0 \/ y[1] = 0 THEN NaN
               ELSE <<Sign(x[1]) * Sign(y[1]), 0>>)
    ELSE LET g == GCD(Abs(x[1]), y[2])
             h == GCD(Abs(y[1]), x[2])
         IN  Frac((x[1] \div g) * (y[1] \div h), (x[2] \div h) * (y[2] \div g))

\* numpy float64 division: a zero divisor gives inf or NaN, never an exception
FDiv(x, y) ==
    IF IsNaN(x) \/ IsNaN(y) THEN NaN
    ELSE IF IsInf(y) THEN (IF IsInf(x) THEN NaN ELSE Zero)
    ELSE IF IsInf(x) THEN <<Sign(x[1]) * (IF y[1] < 0 THEN -1 ELSE 1), 0>>
    ELSE IF y[1] = 0 THEN (IF x[1] = 0 THEN NaN ELSE <<Sign(x[1]), 0>>)
    ELSE FMul(x, Frac(y[2], y[1]))

FAbs(x) == <<Abs(x[1]), x[2]>>

\* comparisons: every comparison with NaN is false
FGt(x, y) ==
    /\ ~IsNaN(x) /\ ~IsNaN(y)
    /\ IF IsInf(x) /\ IsInf(y) THEN x[1] > y[1]
       ELSE IF IsInf(x) THEN x[1] > 0
       ELSE IF IsInf(y) THEN y[1] < 0
       ELSE LET g == GCD(x[2], y[2])
            IN  x[1] * (y[2] \div g) > y[1] * (x[2] \div g)

FLt(x, y) == FGt(y, x)

FGe(x, y) == ~IsNaN(x) /\ ~IsNaN(y) /\ ~FGt(y, x)

FMax(x, y) == IF FGt(y, x) THEN y ELSE x

FMin(x, y) == IF FLt(y, x) THEN y ELSE x

RECURSIVE FSum(_, _)
\* Python's sum(): left to right over a sequence of keys, starting from 0
FSum(f, keys) ==
    IF keys = <<>> THEN Zero
    ELSE FAdd(FSum(f, SubSeq(keys, 1, Len(keys) - 1)), f[keys[Len(keys)]])

(***************************************************************************)
(* Dates.  A date is a day number in a calendar of 12 months of 31 days:   *)
(* day number = year * 372 + (month - 1) * 31 + (day - 1).                 *)
(***************************************************************************)
DateMonth(d) == ((d \div 31) % 12) + 1
DateYear(d) == d \div (31 * 12)

\* Jan 31 y0, Feb 1 y0, Jan 2 y1, Apr 1 y1, Apr 2 y1, Jul 1 y1, then
\* consecutive days
DateSeq == <<30, 31, 373, 465, 466, 558>>

DateAt(i) ==
    IF i <= Len(DateSeq) THEN DateSeq[i]
    ELSE DateSeq[Len(DateSeq)] + (i - Len(DateSeq))

Dates == {DateAt(i) : i \in 1..MaxDates}

\* optimize_weights needs this many return observations
MinObservations == 30

\* a history long enough for optimize_weights to leave its fallback
LongDates == {DateAt(i) : i \in 1..(MinObservations + 1)}

Horizon == IF MaxDates > MinObservations + 1 THEN MaxDates ELSE MinObservations + 1

DatePos(d) == CHOOSE i \in 1..Horizon : DateAt(i) = d

\* a pandas index: the dates of a set in chronological order
RECURSIVE SortedSeq(_)
SortedSeq(S) ==
    IF S = {} THEN <<>>
    ELSE LET m == CHOOSE x \in S : \A y \in S : x >= y
         IN  Append(SortedSeq(S \ {m}), m)

\* the date before d in the index S, or -1 when d is the first one
PrevDate(S, d) ==
    IF \E x \in S : x < d
    THEN CHOOSE x \in S : x < d /\ \A y \in S : y < d => y <= x
    ELSE -1

(***************************************************************************)
(* Inputs of a run                                                         *)
(***************************************************************************)
TickerNames == <<"A", "B", "C", "D">>

TickerSeq(n) == SubSeq(TickerNames, 1, n)

Range(s) == {s[i] : i \in 1..Len(s)}

\* close prices repeat a short pattern along the calendar
PricePatterns == {<<2>>, <<2, 3>>, <<3, 2>>}

PriceAt(pat, d) == pat[((DatePos(d) - 1) % Len(pat)) + 1]

\* an OHLCV frame, reduced to its Close column: index -> close
Frame(pat, idx) == [d \in idx |-> PriceAt(pat, d)]

SignalKinds == {"absent", "ones", "zeros", "alt"}

SignalAt(kind, d) ==
    IF kind = "ones" THEN 1
    ELSE IF kind = "zeros" THEN 0
    ELSE DatePos(d) % 2

AllocationMethods == {"equal", "custom", "market_cap", "optimized"}
RebalancingModes == {"none", "monthly", "quarterly", "threshold"}

\* an asset of a run: its price pattern and the kind of its signal series
AssetProfiles ==
    { [pat |-> <<2, 3>>, sig |-> "ones"],
      [pat |-> <<2>>,    sig |-> "zeros"],
      [pat |-> <<3, 2>>, sig |-> "absent"],
      [pat |-> <<2, 3>>, sig |-> "alt"] }

\* the simulator treats every ticker alike: a run lists its assets in the
\* order of their profiles
ProfileRank(p) ==
    IF p.sig = "ones" THEN 1
    ELSE IF p.sig = "zeros" THEN 2
    ELSE IF p.sig = "absent" THEN 3
    ELSE 4

InProfileOrder(tk, prof) ==
    \A j \in 1..(Len(tk) - 1) :
        ProfileRank(prof[tk[j]]) <= ProfileRank(prof[tk[j + 1]])

Thresholds == {<<1, 20>>, <<1, 10>>}
TransactionCosts == {Zero, <<1, 10>>}

\* stand-ins for returns.std() of a series that is not constant
VolChoices == {<<1, 100>>, <<1, 50>>}

IsConstant(pat) == \A k \in 1..Len(pat) : pat[k] = pat[1]

\* rebalancing, threshold and cost of a run
Policies ==
    { [reb |-> r, thr |-> <<1, 20>>, cost |-> c] :
          r \in {"none", "monthly", "quarterly", "bogus"}, c \in TransactionCosts }
    \cup { [reb |-> "threshold", thr |-> th, cost |-> c] :
          th \in Thresholds, c \in TransactionCosts }

NoCustom == [k \in {} |-> 0]

\* custom_weights dicts: raw weights per ticker, with or without a key "X"
\* that is not a ticker of the run
CustomDicts(tk, raw) ==
    [Range(tk) -> raw] \cup [Range(tk) \cup {"X"} -> raw]

DefaultVol(tk, prof) ==
    [t \in Range(tk) |-> IF IsConstant(prof[t].pat) THEN Zero ELSE <<1, 100>>]

Input(tk, idx, prof, method, custom, pol, vol) ==
    [tickers |-> tk, idx |-> idx, sigidx |-> idx, prof |-> prof,
     method |-> method, custom |-> custom, pol |-> pol, vol |-> vol,
     others |-> {}]

(***************************************************************************)
(* State                                                                   *)
(***************************************************************************)
VARIABLES
    tickers,            \* self.tickers
    asset_data,         \* the caller's dict ticker -> frame (index -> close)
    asset_signals,      \* dict ticker -> signal series (index -> 0/1)
    allocation_method, custom_weights, rebalancing, rebalance_threshold,
    transaction_cost,
    volatilities,       \* returns.std() per ticker
    pc,                 \* position of the run
    error,              \* message of the exception that ended the run
    initial_weights,    \* engine.initial_weights, the target weights
    asset_returns,      \* gated return per ticker and date
    common_index,       \* the calendar of the simulator, chronological
    i,                  \* loop index of the simulator, from 0
    current_weights, new_weights, portfolio_value, portfolio_values,
    weights_timeline, rebalance_dates, last_rebalance,
    deductions,         \* history of the cost deductions of the loop
    portfolio_returns,  \* the realized return series
    metrics,            \* PortfolioMetrics of the run
    asset_metrics,      \* AssetMetrics per ticker
    logged              \* messages passed to logger.warning

config == <<tickers, asset_signals, allocation_method, custom_weights,
            rebalancing, rebalance_threshold, transaction_cost, volatilities>>

sim == <<asset_returns, common_index, i, current_weights, new_weights,
         portfolio_value, portfolio_values, weights_timeline,
         rebalance_dates, last_rebalance, deductions>>

vars == <<config, asset_data, pc, error, initial_weights, sim,
          portfolio_returns, metrics, asset_metrics, logged>>

Unset == <<>>

\* the state before the engine is constructed
Start(inp) ==
    /\ tickers = inp.tickers
    /\ asset_data =
           [t \in Range(inp.tickers) \cup inp.others |->
               IF t \in Range(inp.tickers)
               THEN Frame(inp.prof[t].pat, inp.idx[t])
               ELSE Frame(<<2, 3>>, inp.idx[t])]
    /\ asset_signals =
           [t \in {u \in Range(inp.tickers) : inp.prof[u].sig # "absent"} |->
                [d \in inp.sigidx[t] |-> SignalAt(inp.prof[t].sig, d)]]
    /\ allocation_method = inp.method
    /\ custom_weights = inp.custom
    /\ rebalancing = inp.pol.reb
    /\ rebalance_threshold = inp.pol.thr
    /\ transaction_cost = inp.pol.cost
    /\ volatilities = inp.vol
    /\ pc = "new"
    /\ error = "none"
    /\ initial_weights = Unset
    /\ asset_returns = Unset
    /\ common_index = Unset
    /\ i = 0
    /\ current_weights = Unset
    /\ new_weights = Unset
    /\ portfolio_value = One
    /\ portfolio_values = <<>>
    /\ weights_timeline = <<>>
    /\ rebalance_dates = <<>>
    /\ last_rebalance = -1
    /\ deductions = <<>>
    /\ portfolio_returns = Unset
    /\ metrics = Unset
    /\ asset_metrics = Unset
    /\ logged = {}

Intervals == {{DateAt(k) : k \in lo..hi} : lo \in 1..MaxDates, hi \in 0..MaxDates}

LiveProfile == [pat |-> <<2, 3>>, sig |-> "ones"]

\* histories that overlap or not, every allocation method
AlignInputs ==
    \E n \in 1..MaxTickers, ia \in Intervals, ib \in Intervals,
       m \in AllocationMethods \cup {"bogus"}, raw \in {0, 1} :
        LET tk == TickerSeq(n)
        IN  Start(Input(tk, [t \in Range(tk) |-> IF t = "A" THEN ia ELSE ib],
                        [t \in Range(tk) |-> LiveProfile],
                        m, [t \in Range(tk) |-> raw],
                        [reb |-> "none", thr |-> <<1, 20>>, cost |-> Zero],
                        [t \in Range(tk) |-> <<1, 100>>]))

\* custom allocation over every raw weight dict
WeightInputs ==
    \E n \in 1..MaxTickers :
        LET tk == TickerSeq(n)
        IN  \E cw \in CustomDicts(tk, {-1, 0, 1, 3}) \cup {NoCustom} :
                Start(Input(tk, [t \in Range(tk) |-> Dates],
                            [t \in Range(tk) |-> LiveProfile],
                            "custom", cw,
                            [reb |-> "threshold", thr |-> <<1, 20>>, cost |-> Zero],
                            [t \in Range(tk) |-> <<1, 100>>]))

\* the simulation: a common calendar, every profile and every policy
SimInputs ==
    \E n \in 1..MaxTickers :
        LET tk == TickerSeq(n)
        IN  \E idx \in (SUBSET Dates) \ {{}},
               prof \in [Range(tk) -> AssetProfiles],
               cw \in {NoCustom,
                       [t \in Range(tk) |-> IF t = "A" THEN 3 ELSE 1],
                       [t \in Range(tk) |-> IF t = "A" THEN 1 ELSE 3]},
               pol \in Policies :
                \* unequal targets are charged a cost on at most four dates,
                \* which keeps every fraction within 32-bit integers
                /\ cw = NoCustom \/ pol.cost = Zero \/ Cardinality(idx) <= 4
                /\ InProfileOrder(tk, prof)
                /\ Start(Input(tk, [t \in Range(tk) |-> idx], prof,
                            IF cw = NoCustom THEN "equal" ELSE "custom", cw, pol,
                            DefaultVol(tk, prof)))

\* optimized allocation on a history of MinObservations + 1 dates; the
\* std of a constant series is 0
LongInputs ==
    \E n \in 1..MaxTickers :
        LET tk == TickerSeq(n)
        IN  \E prof \in [Range(tk) -> {LiveProfile, [pat |-> <<2>>, sig |-> "ones"]}],
               v \in [Range(tk) -> VolChoices] :
                Start(Input(tk, [t \in Range(tk) |-> LongDates], prof,
                            "optimized", NoCustom,
                            [reb |-> "none", thr |-> <<1, 20>>, cost |-> Zero],
                            [t \in Range(tk) |->
                                IF IsConstant(prof[t].pat) THEN Zero ELSE v[t]]))

\* signal series that lack one date of the asset's history
GapInputs ==
    \E n \in 1..MaxTickers :
        LET tk == TickerSeq(n)
        IN  \E g \in Dates, k \in {"ones", "alt"}, r \in {"none", "threshold"} :
                Start([Input(tk, [t \in Range(tk) |-> Dates],
                             [t \in Range(tk) |->
                                 [pat |-> IF t = "A" THEN <<2, 3>> ELSE <<2>>,
                                  sig |-> k]],
                             "equal", NoCustom,
                             [reb |-> r, thr |-> <<1, 20>>, cost |-> Zero],
                             [t \in Range(tk) |-> <<1, 100>>])
                          EXCEPT !.sigidx = [t \in Range(tk) |->
                                                IF t = "A" THEN Dates \ {g}
                                                ELSE Dates]])

\* an asset_data dict with a frame "X" that is not a ticker of the run
OtherFrameInputs ==
    \E n \in 1..MaxTickers, ia \in Intervals, ix \in Intervals :
        LET tk == TickerSeq(n)
        IN  Start([Input(tk, [t \in Range(tk) \cup {"X"} |->
                                 IF t = "X" THEN ix ELSE ia],
                         [t \in Range(tk) |-> LiveProfile],
                         "equal", NoCustom,
                         [reb |-> "none", thr |-> <<1, 20>>, cost |-> Zero],
                         [t \in Range(tk) |-> <<1, 100>>])
                      EXCEPT !.others = {"X"}])

Init ==
    \/ AlignInputs
    \/ WeightInputs
    \/ SimInputs
    \/ LongInputs
    \/ GapInputs
    \/ OtherFrameInputs

(***************************************************************************)
(* PortfolioEngine.__init__: time alignment, then weight initialisation    *)
(***************************************************************************)
RECURSIVE Intersection(_, _)
\* common_index of the frames of the keys, folded in dict order
Intersection(data, keys) ==
    IF Len(keys) = 1 THEN DOMAIN data[keys[1]]
    ELSE Intersection(data, SubSeq(keys, 1, Len(keys) - 1))
             \cap DOMAIN data[keys[Len(keys)]]

\* the keys of a dict in insertion order
DictKeys(data) ==
    SelectSeq(TickerNames \o <<"X">>, LAMBDA t : t \in DOMAIN data)

Reindexed(data, tk, idx) ==
    [t \in DOMAIN data |->
        IF t \in Range(tk) THEN [d \in idx |-> data[t][d]] ELSE data[t]]

\* the emptiness test with the wrong comparison
NoCommonDates_Negative(common) == Cardinality(common) < 0

\* len(common_index) == 0
NoCommonDates(common) == Cardinality(common) = 0

align_data ==
    /\ pc = "new"
    /\ IF DOMAIN asset_data = {}
       THEN /\ pc' = "failed"
            /\ error' = "No asset data provided"
            /\ UNCHANGED asset_data
       ELSE LET common == Intersection(asset_data, DictKeys(asset_data))
            IN  IF NoCommonDates(common)
                THEN /\ pc' = "failed"
                     /\ error' = "No common dates across all assets"
                     /\ UNCHANGED asset_data
                ELSE /\ pc' = "aligned"
                     /\ asset_data' = Reindexed(asset_data, tickers, common)
                     /\ UNCHANGED error
    /\ UNCHANGED <<config, initial_weights, sim, portfolio_returns, metrics,
                   asset_metrics, logged>>

EqualWeights(tk) == [t \in Range(tk) |-> Frac(1, Len(tk))]

\* Close.pct_change() of a frame: NaN on the first date
PctChange(frame, d) ==
    LET p == PrevDate(DOMAIN frame, d)
    IN  IF p = -1 THEN NaN
        ELSE FSub(FDiv(F(frame[d]), F(frame[p])), One)

FillNa(x, v) == IF IsNaN(x) THEN v ELSE x

\* rows of the returns frame left by dropna()
ReturnRows(data, tk) ==
    {d \in DOMAIN data[tk[1]] :
        \A t \in Range(tk) : ~IsNaN(PctChange(data[t], d))}

optimize_weights(data, tk, vol) ==
    IF Cardinality(ReturnRows(data, tk)) < MinObservations
    THEN EqualWeights(tk)
    ELSE LET inv_vol == [t \in Range(tk) |-> FDiv(One, vol[t])]
             total == FSum(inv_vol, tk)
         IN  [t \in Range(tk) |-> FDiv(inv_vol[t], total)]

\* what _optimize_weights passes to logger.warning when the method runs it
OptimizeWarnings(method, data, tk) ==
    IF method = "optimized"
           /\ Cardinality(ReturnRows(data, tk)) < MinObservations
    THEN {"Insufficient data for optimization, using equal weights"}
    ELSE {}

RECURSIVE IntSum(_, _)
IntSum(f, S) ==
    IF S = {} THEN 0
    ELSE LET k == CHOOSE x \in S : TRUE
         IN  f[k] + IntSum(f, S \ {k})

CustomGet(cw, t) == IF t \in DOMAIN cw THEN cw[t] ELSE 0

Raised(msg) == [ok |-> FALSE, error |-> msg]
Returned(w) == [ok |-> TRUE, weights |-> w]

\* _calculate_initial_weights without the test of a zero sum
InitialWeights_NoZeroCheck(method, tk, cw, data, vol) ==
    IF method = "equal" THEN Returned(EqualWeights(tk))
    ELSE IF method = "custom"
    THEN LET total == IntSum(cw, DOMAIN cw)
         IN  Returned([t \in Range(tk) |->
                          FDiv(F(CustomGet(cw, t)), F(total))])
    ELSE IF method = "market_cap" THEN Returned(EqualWeights(tk))
    ELSE IF method = "optimized" THEN Returned(optimize_weights(data, tk, vol))
    ELSE Raised("Unknown allocation method")

\* the weights _calculate_initial_weights returns, or the exception it raises
InitialWeights(method, tk, cw, data, vol) ==
    IF method = "equal" THEN Returned(EqualWeights(tk))
    ELSE IF method = "custom"
    THEN LET total == IntSum(cw, DOMAIN cw)
         IN  IF total = 0 THEN Raised("Custom weights sum to zero")
             ELSE Returned([t \in Range(tk) |-> Frac(CustomGet(cw, t), total)])
    ELSE IF method = "market_cap" THEN Returned(EqualWeights(tk))
    ELSE IF method = "optimized" THEN Returned(optimize_weights(data, tk, vol))
    ELSE Raised("Unknown allocation method")

calculate_initial_weights ==
    /\ pc = "aligned"
    /\ LET res == InitialWeights(allocation_method, tickers, custom_weights,
                                 asset_data, volatilities)
       IN  IF res.ok
           THEN /\ initial_weights' = res.weights
                /\ pc' = "initialized"
                /\ UNCHANGED error
           ELSE /\ pc' = "failed"
                /\ error' = res.error
                /\ UNCHANGED initial_weights
    /\ logged' = logged \cup OptimizeWarnings(allocation_method, asset_data, tickers)
    /\ UNCHANGED <<config, asset_data, sim, portfolio_returns, metrics,
                   asset_metrics>>

(***************************************************************************)
(* Rebalance policy                                                        *)
(***************************************************************************)
\* the comparison of months taken with their years
MonthChanged_WithYear(current_date, last) ==
    DateMonth(current_date) # DateMonth(last)
        \/ DateYear(current_date) # DateYear(last)

\* current_date.month != last_rebalance.month
MonthChanged(current_date, last) == DateMonth(current_date) # DateMonth(last)

\* the comparison of quarters without their years
QuarterChanged_NoYear(current_date, last) ==
    ((DateMonth(current_date) - 1) \div 3) # ((DateMonth(last) - 1) \div 3)

\* current_quarter != last_quarter or current_date.year != last_rebalance.year
QuarterChanged(current_date, last) ==
    LET current_quarter == (DateMonth(current_date) - 1) \div 3
        last_quarter == (DateMonth(last) - 1) \div 3
    IN  current_quarter # last_quarter
            \/ DateYear(current_date) # DateYear(last)

\* the drift test that also fires at the threshold
BeyondThreshold_AtThreshold(tk, target, threshold, weights) ==
    \E t \in Range(tk) :
        FGe(FAbs(FSub(weights[t], target[t])), threshold)

\* some ticker with drift > self.rebalance_threshold
BeyondThreshold(tk, target, threshold, weights) ==
    \E t \in Range(tk) :
        FGt(FAbs(FSub(weights[t], target[t])), threshold)

\* the policy without its 'none' branch: the drift test runs for 'none' too
should_rebalance_NoneDrifts(mode, tk, target, threshold, current_date, last, weights) ==
    IF mode = "monthly"
    THEN DateMonth(current_date) # DateMonth(last)
    ELSE IF mode = "quarterly"
    THEN ((DateMonth(current_date) - 1) \div 3) # ((DateMonth(last) - 1) \div 3)
             \/ DateYear(current_date) # DateYear(last)
    ELSE IF mode \in {"threshold", "none"}
    THEN \E t \in Range(tk) :
             FGt(FAbs(FSub(weights[t], target[t])), threshold)
    ELSE FALSE

should_rebalance(mode, tk, target, threshold, current_date, last, weights) ==
    IF mode = "none" THEN FALSE
    ELSE IF mode = "monthly" THEN MonthChanged(current_date, last)
    ELSE IF mode = "quarterly" THEN QuarterChanged(current_date, last)
    ELSE IF mode = "threshold" THEN BeyondThreshold(tk, target, threshold, weights)
    ELSE FALSE

(***************************************************************************)
(* calculate_portfolio_returns                                             *)
(***************************************************************************)
\* the signal of the same date: no shift
ShiftedSignal_SameDay(sig, d) == F(sig[d])

\* signals.shift(1).fillna(0)
ShiftedSignal(sig, d) ==
    LET p == PrevDate(DOMAIN sig, d)
    IN  IF p = -1 THEN Zero ELSE F(sig[p])

\* returns * signals.shift(1).fillna(0) at a date of the returns' index; the
\* product is NaN where the signal series has no entry
GatedReturn(frame, signals, t, d) ==
    LET r == FillNa(PctChange(frame, d), Zero)
    IN  IF t \in DOMAIN signals
        THEN IF d \in DOMAIN signals[t]
             THEN FMul(r, ShiftedSignal(signals[t], d))
             ELSE NaN
        ELSE FMul(r, IF PrevDate(DOMAIN frame, d) = -1 THEN Zero ELSE One)

begin_simulation ==
    /\ pc = "initialized"
    /\ pc' = "simulating"
    /\ common_index' = SortedSeq(Intersection(asset_data, DictKeys(asset_data)))
    /\ current_weights' = initial_weights
    /\ portfolio_values' = <<>>
    /\ weights_timeline' = <<>>
    /\ rebalance_dates' = <<>>
    /\ last_rebalance' = common_index'[1]
    /\ asset_returns' =
           [t \in DOMAIN asset_data |->
               [d \in DOMAIN asset_data[t] |->
                   GatedReturn(asset_data[t], asset_signals, t, d)]]
    /\ portfolio_value' = One
    /\ i' = 0
    /\ UNCHANGED <<config, asset_data, error, initial_weights, new_weights,
                   deductions, portfolio_returns, metrics,
                   asset_metrics, logged>>

\* a snapshot that never carries the rebalance flag
Snapshot_NeverFlagged(date, weights, flag) ==
    [date |-> date, weights |-> weights, rebalance |-> FALSE]

\* an entry of weights_timeline; 'rebalance' is absent from the day's own entry
Snapshot(date, weights, flag) ==
    [date |-> date, weights |-> weights, rebalance |-> flag]

\* sum over tickers of |target - drifted|
Turnover(tk, target, drifted) ==
    FSum([t \in Range(tk) |-> FAbs(FSub(target[t], drifted[t]))], tk)

\* the drift without the renormalisation by total growth
DriftedWeights_Unnormalised(tk, weights, returns, date) ==
    [t \in Range(tk) |-> FMul(weights[t], FAdd(One, returns[t][date]))]

\* weight * (1 + asset return) / total growth
DriftedWeights(tk, weights, returns, date) ==
    LET grown == [t \in Range(tk) |->
                     FMul(weights[t], FAdd(One, returns[t][date]))]
        total_value == FSum(grown, tk)
    IN  [t \in Range(tk) |-> FDiv(grown[t], total_value)]

\* a rebalance that leaves the drifted weights in place
Rebalanced_KeepsDrift(target, drifted) == drifted

\* current_weights = weights.copy(): the weights held after a rebalance
Rebalanced(target, drifted) == target

\* one iteration of the loop over common_index; the engine rebuilt on each
\* day re-aligns frames that are already aligned and only carries the policy
simulate_day ==
    /\ pc = "simulating"
    /\ i < Len(common_index)
    \* current_weights[ticker] for a key of asset_data that has no weight
    \* raises KeyError
    /\ IF DOMAIN asset_data \subseteq DOMAIN current_weights
       THEN /\ LET date == common_index[i + 1]
                   period_return ==
                       FSum([t \in Range(tickers) |->
                                FMul(current_weights[t], asset_returns[t][date])],
                            tickers)
                   value == FMul(portfolio_value, FAdd(One, period_return))
                   drifted == DriftedWeights(tickers, current_weights, asset_returns, date)
                   recorded == Append(weights_timeline,
                                      Snapshot(date, current_weights, FALSE))
               IN  /\ portfolio_values' = Append(portfolio_values, value)
                   /\ IF i < Len(common_index) - 1
                      THEN /\ new_weights' = drifted
                           /\ IF should_rebalance(rebalancing, tickers, initial_weights,
                                                  rebalance_threshold, date,
                                                  last_rebalance, drifted)
                              THEN LET turnover == Turnover(tickers, initial_weights, drifted)
                                       transaction_costs == FMul(turnover, transaction_cost)
                                       factor == FSub(One, transaction_costs)
                                   IN  /\ portfolio_value' = FMul(value, factor)
                                       /\ current_weights' =
                                              Rebalanced(initial_weights, drifted)
                                       /\ rebalance_dates' = Append(rebalance_dates, date)
                                       /\ last_rebalance' = date
                                       /\ weights_timeline' =
                                              Append(recorded,
                                                     Snapshot(date,
                                                              Rebalanced(initial_weights,
                                                                         drifted),
                                                              TRUE))
                                       /\ deductions' =
                                              Append(deductions,
                                                     [date |-> date, at |-> i + 1,
                                                      before |-> value,
                                                      drifted |-> drifted,
                                                      factor |-> factor])
                              ELSE /\ portfolio_value' = value
                                   /\ current_weights' = drifted
                                   /\ weights_timeline' = recorded
                                   /\ UNCHANGED <<rebalance_dates, last_rebalance, deductions>>
                      ELSE /\ portfolio_value' = value
                           /\ weights_timeline' = recorded
                           /\ UNCHANGED <<new_weights, current_weights, rebalance_dates,
                                          last_rebalance, deductions>>
            /\ i' = i + 1
            /\ UNCHANGED <<config, asset_data, pc, error, initial_weights,
                           asset_returns, common_index, portfolio_returns, metrics,
                           asset_metrics, logged>>
       ELSE /\ pc' = "failed"
            /\ error' = "KeyError"
            /\ UNCHANGED <<config, asset_data, initial_weights, sim,
                           portfolio_returns, metrics, asset_metrics, logged>>

\* portfolio_series.pct_change().fillna(0)
ReturnSeries(values) ==
    [k \in 1..Len(values) |->
        IF k = 1 THEN Zero
        ELSE FillNa(FSub(FDiv(values[k], values[k - 1]), One), Zero)]

end_simulation ==
    /\ pc = "simulating"
    /\ i = Len(common_index)
    /\ portfolio_returns' = ReturnSeries(portfolio_values)
    /\ pc' = "simulated"
    /\ UNCHANGED <<config, asset_data, error, initial_weights, sim, metrics,
                   asset_metrics, logged>>

(***************************************************************************)
(* calculate_portfolio_metrics                                             *)
(***************************************************************************)
RECURSIVE CumProd(_, _)
\* (1 + returns).cumprod() at position k
CumProd(returns, k) ==
    IF k = 0 THEN One
    ELSE FMul(CumProd(returns, k - 1), FAdd(One, returns[k]))

\* the drawdown measured against the first value instead of the running peak
RunningMax_First(returns, k) == CumProd(returns, 1)

RECURSIVE RunningMax(_, _)
\* cumulative.expanding().max() at position k
RunningMax(returns, k) ==
    IF k = 1 THEN CumProd(returns, 1)
    ELSE FMax(RunningMax(returns, k - 1), CumProd(returns, k))

Drawdown(returns, k) ==
    FDiv(FSub(CumProd(returns, k), RunningMax(returns, k)),
         RunningMax(returns, k))

RECURSIVE MinSkipNa(_, _)
\* Series.min() of the first k entries: NaN entries are skipped
MinSkipNa(f, k) ==
    IF k = 0 THEN NaN
    ELSE LET rest == MinSkipNa(f, k - 1)
         IN  IF IsNaN(f[k]) THEN rest
             ELSE IF IsNaN(rest) THEN f[k]
             ELSE FMin(rest, f[k])

MaxDrawdown(returns) ==
    MinSkipNa([k \in 1..Len(returns) |-> Drawdown(returns, k)], Len(returns))

\* the return of the last date alone
TotalReturn_LastReturn(returns) == returns[Len(returns)]

\* (1 + portfolio_returns).prod() - 1
TotalReturn(returns) == FSub(CumProd(returns, Len(returns)), One)

\* the snapshots of the timeline recorded for a date, in order
MatchingEntries(timeline, date) == SelectSeq(timeline, LAMBDA w : w.date = date)

RECURSIVE TotalTurnover(_, _, _, _)
\* total_turnover after the first k rebalance dates: first against last
\* snapshot of each date
TotalTurnover(timeline, dates, tk, k) ==
    IF k = 0 THEN Zero
    ELSE LET matching_entries == MatchingEntries(timeline, dates[k])
             rest == TotalTurnover(timeline, dates, tk, k - 1)
         IN  IF Len(matching_entries) >= 2
             THEN LET before == matching_entries[1].weights
                      after == matching_entries[Len(matching_entries)].weights
                  IN  FAdd(rest, Turnover(tk, after, before))
             ELSE rest

\* _calculate_turnover: average turnover at rebalances
calculate_turnover(timeline, dates, tk) ==
    IF Len(dates) = 0 THEN Zero
    ELSE FDiv(TotalTurnover(timeline, dates, tk, Len(dates)), F(Len(dates)))

\* PortfolioMetrics(**calculate_portfolio_metrics(...)): the dict has no
\* total_transaction_costs, the field keeps its default
DefaultTotalTransactionCosts == Zero

calculate_portfolio_metrics ==
    /\ pc = "simulated"
    /\ metrics' =
           [total_return |-> TotalReturn(portfolio_returns),
            max_drawdown |-> MaxDrawdown(portfolio_returns),
            num_rebalances |-> Len(rebalance_dates),
            turnover |-> calculate_turnover(weights_timeline, rebalance_dates,
                                            tickers),
            rebalance_dates |-> rebalance_dates,
            total_transaction_costs |-> DefaultTotalTransactionCosts]
    /\ pc' = "done"
    /\ UNCHANGED <<config, asset_data, error, initial_weights, sim,
                   portfolio_returns, asset_metrics, logged>>

RECURSIVE ProdSkipNa(_, _)
\* Series.prod() of the first k entries: NaN entries are skipped
ProdSkipNa(f, k) ==
    IF k = 0 THEN One
    ELSE IF IsNaN(f[k]) THEN ProdSkipNa(f, k - 1)
    ELSE FMul(ProdSkipNa(f, k - 1), f[k])

\* (1 + strategy_returns).prod() - 1 of a ticker; the rows of the product
\* outside the returns' index are NaN and do not count
AssetTotalReturn(frame, signals, t) ==
    LET ds == SortedSeq(DOMAIN frame)
    IN  FSub(ProdSkipNa([k \in 1..Len(ds) |->
                            FAdd(One, GatedReturn(frame, signals, t, ds[k]))],
                        Len(ds)),
             One)

calculate_asset_metrics ==
    /\ pc = "done"
    /\ asset_metrics' =
           [t \in Range(tickers) |->
               LET total_return == AssetTotalReturn(asset_data[t], asset_signals, t)
                   weight == initial_weights[t]
               IN  [total_return |-> total_return,
                    weight |-> weight,
                    contribution_to_return |-> FMul(total_return, weight)]]
    /\ pc' = "reported"
    /\ UNCHANGED <<config, asset_data, error, initial_weights, sim,
                   portfolio_returns, metrics, logged>>

(***************************************************************************)
(* strategies.calculate_metrics: the single-asset backtest                 *)
(***************************************************************************)
\* data['Returns'] * signals.shift(1) on a date of the frame: NaN on the
\* first date and wherever the shifted series has no value
StrategyReturn(frame, signals, d) ==
    IF d \in DOMAIN signals /\ PrevDate(DOMAIN signals, d) # -1
    THEN FMul(PctChange(frame, d), F(signals[PrevDate(DOMAIN signals, d)]))
    ELSE NaN

\* percent scaling of the reported total_return
Percent == 100

\* calculate_metrics(data, signals)['total_return']: the product over the
\* rows left by dropna(), 0.0 when none is left
calculate_metrics_total_return(frame, signals) ==
    LET ds == SortedSeq(DOMAIN frame)
        strategy_returns ==
            [k \in 1..Len(ds) |-> FAdd(One, StrategyReturn(frame, signals, ds[k]))]
    IN  IF \A k \in 1..Len(ds) : IsNaN(strategy_returns[k])
        THEN Zero
        ELSE FMul(FSub(ProdSkipNa(strategy_returns, Len(ds)), One), F(Percent))

Next ==
    \/ align_data
    \/ calculate_initial_weights
    \/ begin_simulation
    \/ simulate_day
    \/ end_simulation
    \/ calculate_portfolio_metrics
    \/ calculate_asset_metrics

Spec == Init /\ [][Next]_vars

(***************************************************************************)
(* Properties                                                              *)
(***************************************************************************)
WeightSum(w) == FSum(w, tickers)

Snapshots == {weights_timeline[k] : k \in 1..Len(weights_timeline)}

CustomTotal == IntSum(custom_weights, DOMAIN custom_weights)

\* C1: whenever the weight initialiser returns, the initial weights sum to 1,
\* and so do the weights of every snapshot taken right after a rebalance.
C1_WeightsSumToOne ==
    /\ initial_weights # Unset => WeightSum(initial_weights) = One
    /\ \A s \in Snapshots : s.rebalance => WeightSum(s.weights) = One

\* C2: under rebalancing 'none' the rebalance log stays empty, no snapshot
\* is flagged as a rebalance, the running portfolio value never departs
\* from the value recorded for the day (no deduction), and the finished run
\* reports no rebalance and no transaction cost.
C2_NoneNeverRebalances ==
    rebalancing = "none" =>
        /\ rebalance_dates = <<>>
        /\ \A s \in Snapshots : ~s.rebalance
        /\ deductions = <<>>
        /\ Len(portfolio_values) > 0 =>
               portfolio_value = portfolio_values[Len(portfolio_values)]
        /\ pc = "done" =>
               /\ metrics.num_rebalances = 0
               /\ metrics.rebalance_dates = <<>>
               /\ metrics.total_transaction_costs = Zero

\* a finished run under 'none' with a positive cost rate in which some
\* weight drifted further from its target than the threshold
C2_Witness ==
    /\ pc = "done"
    /\ rebalancing = "none"
    /\ transaction_cost # Zero
    /\ Len(common_index) >= 3
    /\ new_weights # Unset
    /\ \E t \in Range(tickers) :
           FGt(FAbs(FSub(new_weights[t], initial_weights[t])), rebalance_threshold)

\* C3: the drifted weights computed on a date sum to 1 over the tickers.
C3_DriftedWeightsSumToOne ==
    new_weights # Unset => WeightSum(new_weights) = One

\* a weight vector of non-negative numbers that sum to 1
WellFormed(w) ==
    /\ w # Unset
    /\ \A t \in Range(tickers) : IsFinite(w[t]) /\ FGe(w[t], Zero)
    /\ WeightSum(w) = One

\* C4: at a rebalance the turnover is the sum of |target - drifted|, the
\* value is multiplied by 1 - turnover * cost once, and the value recorded
\* for the rebalance date is the value after that deduction.
C4_DeductionOnRebalanceDate ==
    WellFormed(initial_weights) =>
    /\ \A k \in 1..Len(deductions) :
           LET d == deductions[k]
           IN  /\ d.factor =
                      FSub(One, FMul(Turnover(tickers, initial_weights, d.drifted),
                                     transaction_cost))
               /\ portfolio_values[d.at] = FMul(d.before, d.factor)
    /\ \A k, l \in 1..Len(deductions) : k # l => deductions[k].at # deductions[l].at

\* two assets on equal targets, the first always held, the second never,
\* threshold policy at 0.05 with a positive cost rate
ScenarioB ==
    /\ Len(tickers) = 2
    /\ initial_weights # Unset
    /\ initial_weights = [t \in Range(tickers) |-> <<1, 2>>]
    /\ DOMAIN asset_signals = Range(tickers)
    /\ \A d \in DOMAIN asset_signals["A"] : asset_signals["A"][d] = 1
    /\ \A d \in DOMAIN asset_signals["B"] : asset_signals["B"][d] = 0
    /\ rebalancing = "threshold"
    /\ rebalance_threshold = <<1, 20>>
    /\ FGt(transaction_cost, Zero)

\* the held asset leaves the band around 0.5 on the second date, which is
\* not the last one
DriftsOnSecondDate ==
    /\ Len(common_index) >= 3
    /\ FGt(FAbs(FSub(DriftedWeights(tickers, initial_weights, asset_returns,
                                    common_index[2])["A"],
                     <<1, 2>>)),
           <<1, 20>>)

\* C5: in that scenario, once the held asset's weight has drifted out of
\* the band, the finished run has a non-empty rebalance log and reports
\* total_transaction_costs > 0.
C5_ThresholdScenarioReportsCosts ==
    (pc = "done" /\ ScenarioB /\ DriftsOnSecondDate) =>
        /\ metrics.rebalance_dates # <<>>
        /\ FGt(metrics.total_transaction_costs, Zero)

DataErrors == {"No asset data provided", "No common dates across all assets"}
ConfigErrors == {"Custom weights sum to zero", "Unknown allocation method"}

NothingSimulated ==
    /\ weights_timeline = <<>>
    /\ portfolio_values = <<>>
    /\ rebalance_dates = <<>>
    /\ current_weights = Unset
    /\ i = 0
    /\ portfolio_returns = Unset
    /\ metrics = Unset

\* C6: custom allocation with raw weights summing to zero never yields a
\* weight vector: once the aligned engine initialises its weights the run
\* has failed with "Custom weights sum to zero" and nothing was simulated.
C6_ZeroCustomSumFails ==
    (allocation_method = "custom" /\ CustomTotal = 0) =>
        /\ pc \in {"new", "aligned", "failed"}
        /\ initial_weights = Unset
        /\ NothingSimulated
        /\ (pc = "failed" /\ error \notin DataErrors) =>
               error = "Custom weights sum to zero"

\* custom weights A = 0, B = 0 rejected by the weight initialiser
C6_Witness ==
    /\ pc = "failed"
    /\ error = "Custom weights sum to zero"
    /\ Len(tickers) = 2
    /\ DOMAIN custom_weights = {"A", "B"}
    /\ custom_weights["A"] = 0
    /\ custom_weights["B"] = 0

\* C7: histories without a common date end the run in alignment with "No
\* common dates across all assets": no weights, no simulation, no metrics.
C7_NoCommonDateFails ==
    (Intersection(asset_data, tickers) = {} /\ pc # "new") =>
        /\ pc = "failed"
        /\ error = "No common dates across all assets"
        /\ initial_weights = Unset
        /\ NothingSimulated

\* two non-empty histories that do not overlap, rejected
C7_Witness ==
    /\ pc = "failed"
    /\ error = "No common dates across all assets"
    /\ Len(tickers) = 2
    /\ DOMAIN asset_data["A"] # {}
    /\ DOMAIN asset_data["B"] # {}
    /\ DOMAIN asset_data["A"] \cap DOMAIN asset_data["B"] = {}

\* C8: a run with an unknown allocation_method or an unknown rebalancing
\* value never completes with a result.
C8_UnknownEnumFails ==
    (allocation_method \notin AllocationMethods
         \/ rebalancing \notin RebalancingModes) =>
        pc # "done"

ReturnsAboveMinusOne(returns) ==
    \A k \in 1..Len(returns) : IsFinite(returns[k]) /\ FGt(returns[k], F(-1))

NonDecreasing(returns) ==
    \A k \in 2..Len(returns) : FGe(CumProd(returns, k), CumProd(returns, k - 1))

\* C9: for a return series with every return > -1, max_drawdown <= 0, and
\* it is 0 exactly when the cumulative curve never decreases.
C9_MaxDrawdownSign ==
    (pc = "done" /\ ReturnsAboveMinusOne(portfolio_returns)) =>
        /\ FGe(Zero, metrics.max_drawdown)
        /\ (metrics.max_drawdown = Zero) <=> NonDecreasing(portfolio_returns)

\* a finished run whose curve rose above its start and then fell
C9_Witness ==
    /\ pc = "done"
    /\ ReturnsAboveMinusOne(portfolio_returns)
    /\ FLt(metrics.max_drawdown, Zero)
    /\ \E k \in 1..Len(portfolio_returns) : FGt(CumProd(portfolio_returns, k), One)

\* identical assets that are always held, equal allocation, no
\* rebalancing and no cost
ScenarioA ==
    /\ \A t \in Range(tickers) :
           /\ asset_data[t] = asset_data[tickers[1]]
           /\ t \in DOMAIN asset_signals
           /\ DOMAIN asset_data[t] \subseteq DOMAIN asset_signals[t]
           /\ \A d \in DOMAIN asset_signals[t] : asset_signals[t][d] = 1
    /\ allocation_method = "equal"
    /\ rebalancing = "none"
    /\ transaction_cost = Zero

\* C10: in that scenario every snapshot holds 1/N per ticker, the portfolio
\* return of each date is the common asset return, nothing is rebalanced
\* or charged, and total_return is last close / first close - 1 of the
\* common price path, whatever N is.
C10_IdenticalAssets ==
    ScenarioA =>
        /\ \A s \in Snapshots : s.weights = EqualWeights(tickers)
        /\ current_weights # Unset => current_weights = EqualWeights(tickers)
        /\ rebalance_dates = <<>>
        /\ pc \in {"simulated", "done"} =>
               \A k \in 1..Len(common_index) :
                   portfolio_returns[k] = asset_returns[tickers[1]][common_index[k]]
        /\ pc = "done" =>
               LET frame == asset_data[tickers[1]]
                   first == common_index[1]
                   last == common_index[Len(common_index)]
               IN  /\ metrics.num_rebalances = 0
                   /\ metrics.total_transaction_costs = Zero
                   /\ metrics.total_return =
                          FSub(FDiv(F(frame[last]), F(frame[first])), One)

\* two identical assets over at least three dates with a non-zero return
C10_Witness ==
    /\ pc = "done"
    /\ ScenarioA
    /\ Len(tickers) >= 2
    /\ Len(common_index) >= 3
    /\ metrics.total_return # Zero
    /\ \E k \in 1..Len(common_index) : FLt(portfolio_returns[k], Zero)

\* C11: no step of a run changes the asset histories the caller supplied:
\* the ticker -> series mapping and every series in it stay as given.
C11_CallerHistoriesUnchanged == [][asset_data' = asset_data]_vars

\* the realized returns of every asset on a date under a signal dict
RealizedReturns(signals, date) ==
    [t \in Range(tickers) |->
        [d \in {date} |-> GatedReturn(asset_data[t], signals, t, d)]]

\* the simulator's tracking variables
Tracking ==
    [value |-> portfolio_value, weights |-> current_weights,
     last |-> last_rebalance, values |-> portfolio_values,
     timeline |-> weights_timeline, dates |-> rebalance_dates]

\* the tracking variables after the k-th date of the common calendar, from
\* those before it and the realized returns of that date
LoopStep(s, returns, k) ==
    LET date == common_index[k]
        period_return ==
            FSum([t \in Range(tickers) |->
                     FMul(s.weights[t], returns[t][date])], tickers)
        value == FMul(s.value, FAdd(One, period_return))
        drifted == DriftedWeights(tickers, s.weights, returns, date)
        recorded == Append(s.timeline, Snapshot(date, s.weights, FALSE))
    IN  IF k - 1 < Len(common_index) - 1
        THEN IF should_rebalance(rebalancing, tickers, initial_weights,
                                 rebalance_threshold, date, s.last, drifted)
             THEN [value |->
                       FMul(value,
                            FSub(One,
                                 FMul(Turnover(tickers, initial_weights, drifted),
                                      transaction_cost))),
                   weights |-> Rebalanced(initial_weights, drifted),
                   last |-> date,
                   values |-> Append(s.values, value),
                   timeline |-> Append(recorded,
                                       Snapshot(date,
                                                Rebalanced(initial_weights, drifted),
                                                TRUE)),
                   dates |-> Append(s.dates, date)]
             ELSE [value |-> value, weights |-> drifted, last |-> s.last,
                   values |-> Append(s.values, value),
                   timeline |-> recorded, dates |-> s.dates]
        ELSE [value |-> value, weights |-> s.weights, last |-> s.last,
              values |-> Append(s.values, value),
              timeline |-> recorded, dates |-> s.dates]

\* the signal dict with every signal inverted on every date from t on
FlippedFrom(signals, t) ==
    [u \in DOMAIN signals |->
        [d \in DOMAIN signals[u] |->
            IF d >= t THEN 1 - signals[u][d] ELSE signals[u][d]]]

\* the last date of a signal series before d
SignalDateBefore(sig, d) == CHOOSE p \in DOMAIN sig :
    p < d /\ \A q \in DOMAIN sig : q < d => q <= p

PositionOn(signals, t, d) ==
    IF t \in DOMAIN signals /\ d \in DOMAIN signals[t] THEN signals[t][d] ELSE 0

\* C13: a ticker without a signal entry for a date, or without a signal
\* series, is flat on that date: the return of the next date of the
\* calendar is gated to 0 in the simulator, and a ticker without any
\* entry has a per-asset total return of 0.
C13_MissingSignalIsFlat ==
    /\ asset_returns # Unset =>
           \A t \in Range(tickers) :
               \A k \in 2..Len(common_index) :
                   PositionOn(asset_signals, t, common_index[k - 1]) = 0 =>
                       asset_returns[t][common_index[k]] = Zero
    /\ asset_metrics # Unset =>
           \A t \in Range(tickers) :
               (\A d \in DOMAIN asset_data[t] : PositionOn(asset_signals, t, d) = 0) =>
                   asset_metrics[t].total_return = Zero

\* the snapshots taken at the start of each date, in order
DailySnapshots == SelectSeq(weights_timeline, LAMBDA s : ~s.rebalance)

\* the portfolio return of each date before any cost: the weights held at
\* the start of the date applied to the realized returns of the date
GrossReturns ==
    [k \in 1..Len(DailySnapshots) |->
        FSum([t \in Range(tickers) |->
                 FMul(DailySnapshots[k].weights[t],
                      asset_returns[t][DailySnapshots[k].date])],
             tickers)]

\* the deductions of the run as returns: factor - 1
CostReturns == [k \in 1..Len(deductions) |-> FSub(deductions[k].factor, One)]

\* C14: the reported total_return is value[last] / value[first] - 1 of the
\* recorded value path, which is the product of (1 + r) - 1 over the
\* returned series, and the last value is the compounded gross return of
\* every date times the factor of every deduction charged during the run.
C14_TotalReturnOfValuePath ==
    pc = "done" =>
        LET n == Len(portfolio_values)
        IN  /\ metrics.total_return =
                   FSub(FDiv(portfolio_values[n], portfolio_values[1]), One)
            /\ metrics.total_return = FSub(CumProd(portfolio_returns, n), One)
            /\ portfolio_values[n] =
                   FMul(CumProd(GrossReturns, n),
                        CumProd(CostReturns, Len(deductions)))

\* sum of the turnovers the deductions of the run were charged on
RECURSIVE ChargedTurnover(_)
ChargedTurnover(k) ==
    IF k = 0 THEN Zero
    ELSE FAdd(ChargedTurnover(k - 1),
              Turnover(tickers, initial_weights, deductions[k].drifted))

\* C15: the reported turnover is the mean over the rebalance log of the
\* turnover each rebalance was charged on, sum of |target - drifted|, and
\* it is 0 when nothing was rebalanced.
C15_TurnoverIsMeanCharged ==
    pc = "done" =>
        IF Len(rebalance_dates) = 0
        THEN metrics.turnover = Zero
        ELSE metrics.turnover =
                 FDiv(ChargedTurnover(Len(deductions)), F(Len(rebalance_dates)))

\* the advisory annotations a result carries
Annotations(result) ==
    IF "warnings" \in DOMAIN result THEN result.warnings ELSE {}

\* C16: optimized weighting on fewer than MinObservations return rows does
\* not fail: the run gets equal weights, finishes with its metrics, and
\* the result carries a warning annotation for the condition.
C16_InsufficientHistoryAnnotated ==
    (allocation_method = "optimized"
         /\ pc \notin {"new", "failed"}
         /\ Cardinality(ReturnRows(asset_data, tickers)) < MinObservations) =>
        /\ pc # "aligned" => initial_weights = EqualWeights(tickers)
        /\ pc = "done" =>
               /\ logged # {}
               /\ DOMAIN metrics # {}
               /\ Annotations(metrics) # {}

NonNegative(w) == \A t \in Range(tickers) : FGe(w[t], Zero)

\* every realized asset return of the run is above -100%
AssetReturnsAboveMinusOne ==
    \A t \in Range(tickers) :
        \A d \in DOMAIN asset_returns[t] : FGt(asset_returns[t][d], F(-1))

\* C17: every weight the weight initialiser returns is >= 0, and with
\* asset returns above -100% so is every weight of every recorded
\* snapshot, drifted or post-rebalance.
C17_WeightsNonNegative ==
    /\ initial_weights # Unset => NonNegative(initial_weights)
    /\ (asset_returns # Unset /\ AssetReturnsAboveMinusOne) =>
           \A s \in Snapshots : NonNegative(s.weights)

\* the dates every series of the run's tickers has
TickerDates(data) == Intersection(data, tickers)

\* C18: alignment re-slices the series of each ticker of the run to
\* exactly the dates that the series of all the run's tickers share, and
\* the simulator's calendar is those dates in increasing order, visited
\* one after the other.
C18_AlignmentOverTickers ==
    [][/\ (pc = "new" /\ pc' = "aligned") =>
              \A t \in Range(tickers) :
                  asset_data'[t] =
                      [d \in TickerDates(asset_data) |-> asset_data[t][d]]
       /\ pc' = "simulating" =>
              /\ common_index' = SortedSeq(TickerDates(asset_data'))
              /\ \A k \in 1..Len(weights_timeline') :
                     weights_timeline'[k].date \in TickerDates(asset_data')
              /\ \A k \in 1..i' :
                     SelectSeq(weights_timeline', LAMBDA s : ~s.rebalance)[k].date
                         = common_index'[k]]_vars

\* C19: once computed the target weights never change, every rebalance
\* leaves the current weights equal to the target and records a flagged
\* snapshot of its date holding the target, and every flagged snapshot of
\* the timeline holds the target.
C19_RebalanceRestoresTarget ==
    [][/\ initial_weights # Unset => initial_weights' = initial_weights
       /\ Len(rebalance_dates') > Len(rebalance_dates) =>
              LET last == weights_timeline'[Len(weights_timeline')]
              IN  /\ current_weights' = initial_weights
                  /\ last.rebalance
                  /\ last.weights = initial_weights
                  /\ last.date = rebalance_dates'[Len(rebalance_dates')]
       /\ \A k \in 1..Len(weights_timeline') :
              weights_timeline'[k].rebalance =>
                  weights_timeline'[k].weights = initial_weights]_vars

\* a finished threshold run on unequal targets that rebalanced from
\* drifted weights off the target
C19_Witness ==
    /\ pc = "done"
    /\ rebalancing = "threshold"
    /\ WellFormed(initial_weights)
    /\ \E t \in Range(tickers) : initial_weights[t] # Frac(1, Len(tickers))
    /\ deductions # <<>>
    /\ \A k \in 1..Len(deductions) : deductions[k].drifted # initial_weights
    /\ current_weights # initial_weights

\* one asset holding the whole portfolio, never rebalanced, with a 0/1
\* signal on every date of its history
SingleAssetRun ==
    /\ Len(tickers) = 1
    /\ DOMAIN asset_data = {tickers[1]}
    /\ initial_weights # Unset
    /\ initial_weights[tickers[1]] = One
    /\ rebalancing = "none"
    /\ tickers[1] \in DOMAIN asset_signals
    /\ DOMAIN asset_signals[tickers[1]] = DOMAIN asset_data[tickers[1]]

\* C20: for a single asset with target weight 1, no rebalancing and a 0/1
\* signal series, the portfolio's total_return times 100 is the
\* total_return the single-asset calculate_metrics reports for the same
\* prices and signals.
C20_MatchesSingleAssetEngine ==
    (pc = "done" /\ SingleAssetRun) =>
        FMul(metrics.total_return, F(Percent)) =
            calculate_metrics_total_return(asset_data[tickers[1]],
                                           asset_signals[tickers[1]])

\* a finished single-asset run over four dates whose signal is 1 on some
\* dates and 0 on others and whose total return is not zero
C20_Witness ==
    /\ pc = "done"
    /\ SingleAssetRun
    /\ Len(common_index) >= 4
    /\ \E d, e \in DOMAIN asset_signals[tickers[1]] :
           asset_signals[tickers[1]][d] = 0 /\ asset_signals[tickers[1]][e] = 1
    /\ metrics.total_return # Zero

Simulating == pc \in {"simulating", "simulated", "done", "reported"}

\* the loop has run over the whole calendar
LoopFinished == pc \in {"simulated", "done", "reported"}

\* the last-rebalance date in force when the k-th date is evaluated
LastRebalanceBefore(k) ==
    LET earlier == SelectSeq(rebalance_dates, LAMBDA d : d < common_index[k])
    IN  IF earlier = <<>> THEN common_index[1] ELSE earlier[Len(earlier)]

\* the weights held at the start of the k-th date after that date's drift
DriftedOn(k) ==
    DriftedWeights(tickers, DailySnapshots[k].weights, asset_returns,
                   common_index[k])

\* what the policy answers on the k-th date
PolicyOn(k) ==
    should_rebalance(rebalancing, tickers, initial_weights, rebalance_threshold,
                     common_index[k], LastRebalanceBefore(k), DriftedOn(k))

\* the effects of a rebalance on a date: logged, charged, snapshot recorded
RebalancedOn(date) ==
    /\ \E k \in 1..Len(rebalance_dates) : rebalance_dates[k] = date
    /\ \E k \in 1..Len(deductions) : deductions[k].date = date
    /\ \E s \in Snapshots : s.date = date /\ s.rebalance

\* C21: once the final date of the calendar has been processed, if the
\* policy holds for that date's drifted weights then a rebalance took
\* place on it: logged, charged and recorded with its flagged snapshot.
C21_FinalDateEvaluated ==
    (Simulating /\ i = Len(common_index) /\ i >= 1) =>
        (PolicyOn(i) => RebalancedOn(common_index[i]))

\* C22: the first date of the calendar is never a rebalance: it is not in
\* the rebalance log, and once processed it has exactly one snapshot,
\* unflagged, holding the target weights.
C22_FirstDateNeverRebalances ==
    (Simulating /\ i >= 1) =>
        LET first == common_index[1]
        IN  /\ \A k \in 1..Len(rebalance_dates) : rebalance_dates[k] # first
            /\ Cardinality({k \in 1..Len(weights_timeline) :
                               weights_timeline[k].date = first}) = 1
            /\ weights_timeline[1] = Snapshot(first, initial_weights, FALSE)

\* weight vectors the policy can be asked about in a state
ProbeWeights ==
    {initial_weights, EqualWeights(tickers), [t \in Range(tickers) |-> One]}
        \cup (IF new_weights = Unset THEN {} ELSE {new_weights})

\* the dates of the calendar on which the policy has been evaluated
EvaluatedDates == 1..(IF i < Len(common_index) THEN i ELSE Len(common_index) - 1)

InRebalanceLog(date) ==
    \E k \in 1..Len(rebalance_dates) : rebalance_dates[k] = date

YearQuarter(d) == <<DateYear(d), (DateMonth(d) - 1) \div 3>>

\* C24: under 'quarterly' the policy answers true exactly when the (year,
\* quarter) of the current date differs from that of the last-rebalance
\* date, for every pair of dates and whatever the weights, and the run
\* rebalances on exactly the evaluated dates for which this holds.
C24_QuarterlyIffYearQuarterDiffers ==
    (rebalancing = "quarterly" /\ LoopFinished) =>
        /\ \A d \in Dates, l \in Dates, w \in ProbeWeights :
               should_rebalance(rebalancing, tickers, initial_weights,
                                rebalance_threshold, d, l, w)
                   <=> YearQuarter(d) # YearQuarter(l)
        /\ \A k \in EvaluatedDates :
               InRebalanceLog(common_index[k])
                   <=> YearQuarter(common_index[k])
                           # YearQuarter(LastRebalanceBefore(k))

\* a finished quarterly run that did not rebalance on a date of another
\* month of the same quarter and did rebalance on a date of the same
\* quarter of the next year
C24_Witness ==
    /\ pc = "done"
    /\ rebalancing = "quarterly"
    /\ \E k \in EvaluatedDates :
           /\ ~InRebalanceLog(common_index[k])
           /\ DateMonth(common_index[k]) # DateMonth(LastRebalanceBefore(k))
    /\ \E k \in EvaluatedDates :
           /\ InRebalanceLog(common_index[k])
           /\ YearQuarter(common_index[k])[2] = YearQuarter(LastRebalanceBefore(k))[2]

\* |weight - target| of a ticker
Drift(w, t) == FAbs(FSub(w[t], initial_weights[t]))

\* C25: under 'threshold' the policy answers true exactly when some ticker
\* has |current weight - target weight| > threshold, strictly, whatever the
\* dates; the run rebalances on exactly the evaluated dates whose drifted
\* weights satisfy this, and a date evaluated to false hands the drifted
\* weights on unchanged.
C25_ThresholdIffStrictDrift ==
    (rebalancing = "threshold" /\ LoopFinished) =>
        /\ \A w \in ProbeWeights :
               LET beyond == \E t \in Range(tickers) :
                                 FGt(Drift(w, t), rebalance_threshold)
               IN  \A d \in Dates :
                       \A l \in {d, common_index[1]} :
                           should_rebalance(rebalancing, tickers, initial_weights,
                                            rebalance_threshold, d, l, w) <=> beyond
        /\ \A k \in EvaluatedDates :
               LET drifted == DriftedOn(k)
               IN  /\ InRebalanceLog(common_index[k])
                          <=> \E t \in Range(tickers) :
                                  FGt(Drift(drifted, t), rebalance_threshold)
                   /\ ~InRebalanceLog(common_index[k]) =>
                          DailySnapshots[k + 1].weights = drifted

\* a finished threshold run that rebalanced on one date and did not on a
\* date whose largest drift was exactly the threshold
C25_Witness ==
    /\ pc = "done"
    /\ rebalancing = "threshold"
    /\ rebalance_dates # <<>>
    /\ \E k \in EvaluatedDates :
           /\ ~InRebalanceLog(common_index[k])
           /\ \E t \in Range(tickers) :
                  Drift(DriftedOn(k), t) = rebalance_threshold

\* C26: the timeline holds, in calendar order, one unflagged snapshot per
\* date of the common calendar, holding the weights in force at the start of
\* that day, and one flagged snapshot right after the day's own for exactly
\* the dates of the rebalance log; its length is the calendar's plus the
\* log's, and num_rebalances is the log's length.
C26_TimelineLayout ==
    /\ LoopFinished =>
           /\ Len(weights_timeline) = Len(common_index) + Len(rebalance_dates)
           /\ Len(DailySnapshots) = Len(common_index)
           /\ \A k \in 1..Len(common_index) :
                  /\ DailySnapshots[k].date = common_index[k]
                  /\ DailySnapshots[k].weights =
                         IF k = 1 THEN initial_weights
                         ELSE IF InRebalanceLog(common_index[k - 1])
                              THEN initial_weights
                              ELSE DriftedOn(k - 1)
           /\ \A p \in 1..Len(weights_timeline) :
                  weights_timeline[p].rebalance =>
                      /\ p > 1
                      /\ ~weights_timeline[p - 1].rebalance
                      /\ weights_timeline[p - 1].date = weights_timeline[p].date
                      /\ InRebalanceLog(weights_timeline[p].date)
           /\ \A r \in 1..Len(rebalance_dates) :
                  Cardinality({p \in 1..Len(weights_timeline) :
                                  /\ weights_timeline[p].rebalance
                                  /\ weights_timeline[p].date = rebalance_dates[r]}) = 1
           /\ \A r, q \in 1..Len(rebalance_dates) :
                  r < q => rebalance_dates[r] < rebalance_dates[q]
    /\ pc \in {"done", "reported"} =>
           metrics.num_rebalances = Len(rebalance_dates)

\* a reported run with a rebalance on one date and none on another
C26_Witness ==
    /\ pc = "done"
    /\ Len(rebalance_dates) >= 1
    /\ Len(weights_timeline) > Len(rebalance_dates) + Len(rebalance_dates)
    /\ metrics.num_rebalances = Len(rebalance_dates)
    /\ \E p \in 1..Len(weights_timeline) : weights_timeline[p].rebalance

\* weight * (1 + return) of a ticker on the date being processed
GrownToday(t) ==
    FMul(current_weights[t], FAdd(One, asset_returns[t][common_index[i + 1]]))

\* the value of the day before any deduction
GrossValueToday ==
    FMul(portfolio_value,
         FAdd(One, FSum([t \in Range(tickers) |->
                            FMul(current_weights[t],
                                 asset_returns[t][common_index[i + 1]])],
                        tickers)))

\* the processed date is one the policy is evaluated on, and it answers false
PolicyFalseToday ==
    /\ pc = "simulating"
    /\ i' = i + 1
    /\ i < Len(common_index) - 1
    /\ ~should_rebalance(rebalancing, tickers, initial_weights,
                         rebalance_threshold, common_index[i + 1],
                         last_rebalance, new_weights')

\* C27: a date on which the policy answers false deducts no cost, appends
\* nothing to the rebalance log, keeps the last-rebalance date, and leaves
\* as the weights of the next date each ticker's grown weight divided by the
\* total of the grown weights.
C27_NoRebalanceLeavesDrift ==
    [][PolicyFalseToday =>
           /\ portfolio_value' = GrossValueToday
           /\ deductions' = deductions
           /\ rebalance_dates' = rebalance_dates
           /\ last_rebalance' = last_rebalance
           /\ weights_timeline' =
                  Append(weights_timeline,
                         Snapshot(common_index[i + 1], current_weights, FALSE))
           /\ \A t \in Range(tickers) :
                  current_weights'[t] =
                      FDiv(GrownToday(t),
                           FSum([s \in Range(tickers) |-> GrownToday(s)], tickers))]_vars

\* a finished run with a cost rate, whose weights moved on a date answered
\* false after an earlier rebalance
C27_Witness ==
    /\ pc = "done"
    /\ transaction_cost # Zero
    /\ rebalancing # "none"
    /\ rebalance_dates # <<>>
    /\ \E k \in EvaluatedDates :
           /\ ~InRebalanceLog(common_index[k])
           /\ common_index[k] > rebalance_dates[1]
           /\ DriftedOn(k) # DailySnapshots[k].weights
           /\ DailySnapshots[k + 1].weights = DriftedOn(k)

\* the engine was built with allocation_method 'optimized'
OptimizedEngine ==
    allocation_method = "optimized" /\ pc \notin {"new", "aligned", "failed"}

\* the weights are in the ratio of 1/std and sum to 1
InverseVolatility(w) ==
    /\ FSum(w, tickers) = One
    /\ \A s, t \in Range(tickers) :
           FMul(w[s], volatilities[s]) = FMul(w[t], volatilities[t])

\* C28: under 'optimized' the initial weights are the equal weights 1/N
\* exactly when the aligned history has fewer than 30 complete return rows,
\* and with 30 or more they are proportional to 1/std and sum to 1.
C28_OptimizedEqualIffShortHistory ==
    OptimizedEngine =>
        /\ initial_weights = EqualWeights(tickers)
               <=> Cardinality(ReturnRows(asset_data, tickers)) < MinObservations
        /\ Cardinality(ReturnRows(asset_data, tickers)) >= MinObservations =>
               InverseVolatility(initial_weights)

\* C29: under 'threshold' with a threshold >= 0 and target weights that sum
\* to 1, the weights of every unflagged snapshot are within the threshold
\* of the target weights, ticker by ticker.
C29_StartOfDayWithinThreshold ==
    (/\ rebalancing = "threshold"
     /\ Simulating
     /\ FGe(rebalance_threshold, Zero)
     /\ WeightSum(initial_weights) = One) =>
        \A k \in 1..Len(DailySnapshots) :
            \A t \in Range(tickers) :
                FGe(rebalance_threshold, Drift(DailySnapshots[k].weights, t))

YearMonth(d) == <<DateYear(d), DateMonth(d)>>

\* the calendar dates that open a (year, month) other than the first date's
MonthOpeners(upto) ==
    {common_index[k] : k \in {j \in 2..upto :
        /\ YearMonth(common_index[j]) # YearMonth(common_index[1])
        /\ \A h \in 1..(j - 1) :
               YearMonth(common_index[h]) # YearMonth(common_index[j])}}

\* C30: a finished 'monthly' run has rebalanced on exactly the first
\* calendar date of every (year, month) after the month of the first date,
\* once each.
C30_MonthlyOnFirstDayOfEachMonth ==
    (rebalancing = "monthly" /\ LoopFinished) =>
        /\ Range(rebalance_dates) = MonthOpeners(Len(common_index))
        /\ \A r, q \in 1..Len(rebalance_dates) :
               r # q => YearMonth(rebalance_dates[r]) # YearMonth(rebalance_dates[q])

====
